---------------------------- MODULE Spec2Model ----------------------------
(***************************************************************************)
(* The multi-calendar date engine of dailytasks (utils/dateUtils):         *)
(* Gregorian <-> Jalali conversion, Gregorian -> Hijri conversion, the     *)
(* holiday classifier and the calendar utilities.  The engine is a library *)
(* of pure functions; each is an operator computed as the source computes  *)
(* it, and the state machine stages an input date, pivots it through the   *)
(* converters and records what the other engine functions return for it.   *)
(* The backend's login endpoint follows: the rate limiter in front of it   *)
(* and the login handler with its password upgrade.                        *)
(***************************************************************************)
EXTENDS Integers, Sequences, FiniteSets, TLC

VARIABLES
    src,        \* the date a caller supplied: [cal |-> "J" or "G", date |-> <<y, m, d>>]
    cur,        \* the date after the conversions applied so far (same shape)
    steps,      \* number of conversions applied to src
    dayOfWeek,  \* the weekday index the caller passes to the holiday classifier
    ret,        \* results of the engine calls made on cur: function name -> value
    now,            \* Date.now() of the backend, in ms
    loginAttempts,  \* the Map of the rate limiter: key -> [count, resetAt]
    served,         \* per key, the requests of its current window: [passed, rejected],
                    \* and those rejected in the window before: [earlier]
    users,          \* the users table: username -> password_hash
    sessions,       \* the sessions table: set of [username, token]
    reqs,           \* the login requests: slot -> the handler's locals and position
    currentJalali,  \* the month the calendar shows: [jy, jm]
    cells,          \* the day cells of the grid shown, in order
    lunarKeysShown, \* the lunar keys "m-d" of all cells shown so far
    lastNav,        \* the last month change and the grid it left
    clicks,         \* number of month changes so far
    picker,         \* the date picker's state <<jy, jm, jd>>
    value,          \* the picker's value prop: an ISO date-time [date, minutes] (UTC), or empty
    effectPending,  \* the picker's sync effect has yet to run for the value
    lastChange,     \* the arguments of the last handleChange, <<>> before the first
    selects,        \* number of selections made in the picker so far
    timezoneOffset  \* local time minus UTC of the browser, in minutes

engineVars == <<src, cur, steps, dayOfWeek, ret>>

limiterVars == <<now, loginAttempts, served>>

loginVars == <<users, sessions, reqs>>

serverVars == <<limiterVars, loginVars>>

calendarVars == <<currentJalali, cells, lunarKeysShown, lastNav, clicks>>

pickerVars == <<picker, value, effectPending, lastChange, selects, timezoneOffset>>

vars == <<engineVars, serverVars, calendarVars, pickerVars>>

----------------------------------------------------------------------------
(* Bounds of the model *)

MinJy == 1300
MaxJy == 1500
MinGy == 1921
MaxGy == 2121
HolMinJy == 1400
HolMaxJy == 1408
MaxSteps == 2
MaxWindows == 2
MaxExtra == 2
MaxRequests == 2
MaxClicks == 2
MaxSelects == 3

----------------------------------------------------------------------------
(* JavaScript integer arithmetic *)

\* function div(a, b) { return ~~(a / b); } : the quotient truncated toward zero
div(a, b) == IF a >= 0 THEN a \div b ELSE -((-a) \div b)

\* the % operator: the remainder takes the sign of the dividend
rem(a, b) == a - b * div(a, b)

\* Math.floor of the quotient of two integers (b > 0)
floorDiv(a, b) == a \div b

----------------------------------------------------------------------------
(* Gregorian -> Jalali *)

g_d_m_julyOff == <<0, 31, 59, 90, 120, 151, 182, 212, 243, 273, 304, 334>>

g_d_m == <<0, 31, 59, 90, 120, 151, 181, 212, 243, 273, 304, 334>>

\* lines 51-52: days elapsed since the epoch of the algorithm
gregorianDays_epochOffByOne(gy, gm, gd) ==
    LET gy2 == IF gm > 2 THEN gy + 1 ELSE gy
    IN  355667 + (365 * gy) + div(gy2 + 3, 4) - div(gy2 + 99, 100)
          + div(gy2 + 399, 400) + gd + g_d_m[gm]

gregorianDays(gy, gm, gd) ==
    LET gy2 == IF gm > 2 THEN gy + 1 ELSE gy
    IN  355666 + (365 * gy) + div(gy2 + 3, 4) - div(gy2 + 99, 100)
          + div(gy2 + 399, 400) + gd + g_d_m[gm]

\* lines 61-67: month and day from the days since 1 Farvardin
jalaliMonthDay_splitEarly(days) ==
    IF days < 185
    THEN <<1 + div(days, 31), 1 + rem(days, 31)>>
    ELSE <<7 + div(days - 186, 30), 1 + rem(days - 186, 30)>>

jalaliMonthDay(days) ==
    IF days < 186
    THEN <<1 + div(days, 31), 1 + rem(days, 31)>>
    ELSE <<7 + div(days - 186, 30), 1 + rem(days - 186, 30)>>

gregorianToJalaliCore(gy, gm, gd) ==
    LET days0 == gregorianDays(gy, gm, gd)
        jy0   == -1595 + (33 * div(days0, 12053))
        days1 == rem(days0, 12053)
        jy1   == jy0 + 4 * div(days1, 1461)
        days2 == rem(days1, 1461)
        jy    == IF days2 > 365 THEN jy1 + div(days2 - 1, 365) ELSE jy1
        days  == IF days2 > 365 THEN rem(days2 - 1, 365) ELSE days2
        md    == jalaliMonthDay(days)
    IN  <<jy, md[1], md[2]>>

----------------------------------------------------------------------------
(* Jalali -> Gregorian *)

isGregorianLeap(gy) ==
    (gy % 4 = 0 /\ gy % 100 # 0) \/ (gy % 400 = 0)

\* line 90; sal_a[0] of the source is sal_a(gy)[1] here
sal_a_noCenturyRule(gy) ==
    <<0, 31, IF gy % 4 = 0 THEN 29 ELSE 28, 31, 30, 31, 30, 31, 31, 30, 31, 30, 31>>

sal_a(gy) ==
    <<0, 31, IF isGregorianLeap(gy) THEN 29 ELSE 28, 31, 30, 31, 30, 31, 31, 30, 31, 30, 31>>

\* lines 91-95: for (gm = 0; gm < 13; gm++) { v = sal_a[gm]; if (gd <= v) break; gd -= v; }
RECURSIVE monthLoop(_, _, _)
monthLoop(sal, gm, gd) ==
    IF gm >= 13 THEN <<gm, gd>>
    ELSE IF gd <= sal[gm + 1] THEN <<gm, gd>>
    ELSE monthLoop(sal, gm + 1, gd - sal[gm + 1])

\* lines 73-74: days elapsed since the epoch of the algorithm
jalaliDays_epochOffByOne(jy0, jm, jd) ==
    LET jy == jy0 + 1595
    IN  -355667 + (365 * jy) + (div(jy, 33) * 8) + div(rem(jy, 33) + 3, 4) + jd
          + (IF jm < 7 THEN (jm - 1) * 31 ELSE ((jm - 7) * 30) + 186)

jalaliDays(jy0, jm, jd) ==
    LET jy == jy0 + 1595
    IN  -355668 + (365 * jy) + (div(jy, 33) * 8) + div(rem(jy, 33) + 3, 4) + jd
          + (IF jm < 7 THEN (jm - 1) * 31 ELSE ((jm - 7) * 30) + 186)

jalaliToGregorianCore(jy, jm, jd) ==
    LET days0 == jalaliDays(jy, jm, jd)
        gy0   == 400 * div(days0, 146097)
        days1 == rem(days0, 146097)
        \* lines 77-82
        cent  == days1 > 36524
        days2 == days1 - 1
        gy1   == IF cent THEN gy0 + 100 * div(days2, 36524) ELSE gy0
        days3 == rem(days2, 36524)
        days4 == IF cent THEN (IF days3 >= 365 THEN days3 + 1 ELSE days3) ELSE days1
        gy2   == gy1 + 4 * div(days4, 1461)
        days5 == rem(days4, 1461)
        gy    == IF days5 > 365 THEN gy2 + div(days5 - 1, 365) ELSE gy2
        days  == IF days5 > 365 THEN rem(days5 - 1, 365) ELSE days5
        mg    == monthLoop(sal_a(gy), 0, days + 1)
    IN  <<gy, mg[1], mg[2]>>

gregorianToJalali(gy, gm, gd) == gregorianToJalaliCore(gy, gm, gd)

jalaliToGregorian(jy, jm, jd) == jalaliToGregorianCore(jy, jm, jd)

----------------------------------------------------------------------------
(* Calendar utilities *)

getJalaliDaysInMonth_longMehr(jy, jm) ==
    IF jm <= 7 THEN 31
    ELSE IF jm <= 11 THEN 30
    ELSE IF rem((jy + 38) * 31, 128) <= 30 THEN 30 ELSE 29

getJalaliDaysInMonth(jy, jm) ==
    IF jm <= 6 THEN 31
    ELSE IF jm <= 11 THEN 30
    ELSE IF rem((jy + 38) * 31, 128) <= 30 THEN 30 ELSE 29

----------------------------------------------------------------------------
(* Gregorian -> Hijri *)

CALIBRATION_OFFSET_wrongSign == 1 + 1

CALIBRATION_OFFSET == -2

epochastro == 1948084

\* lines 110-128: the Julian Day Number of a Gregorian date.
\* Math.floor(365.25 * n) is floor(1461 n / 4); Math.floor(30.6001 * n) is
\* floor(306001 n / 10000) for the n = m + 1 in 4..15 that occur.
gregorianToJdn(gy, gm, gd) ==
    LET y  == IF gm < 3 THEN gy - 1 ELSE gy
        m  == IF gm < 3 THEN gm + 12 ELSE gm
        a  == floorDiv(y, 100)
        b0 == IF y < 1583 THEN 0 ELSE 2 - a + floorDiv(a, 4)
        b  == IF y = 1582
              THEN (IF m > 10 THEN -10
                    ELSE IF m = 10 THEN (IF gd > 4 THEN -10 ELSE 0)
                    ELSE b0)
              ELSE b0
    IN  floorDiv(1461 * (y + 4716), 4) + floorDiv(306001 * (m + 1), 10000) + gd + b - 1524

\* lines 133-137: the Gregorian century correction of a Julian Day Number.
\* Math.floor((jd - 1867216.25) / 36524.25) = floor((100 jd - 186721625) / 3652425)
jdnCenturyCorrection_noQuarter(jd) ==
    IF jd > 2299160
    THEN 1 + floorDiv(100 * jd - 186721625, 3652425)
    ELSE 0

jdnCenturyCorrection(jd) ==
    IF jd > 2299160
    THEN LET a == floorDiv(100 * jd - 186721625, 3652425)
         IN  1 + a - floorDiv(a, 4)
    ELSE 0

\* lines 133-148: the Gregorian date of a Julian Day Number (the locals day,
\* month, year). Math.floor((bb - 122.1) / 365.25) = floor((20 bb - 2442) / 7305),
\* Math.floor(x / 30.6001) = floor(10000 x / 306001).
\* gregorianToHijri applies it to the calibrated number and does not return
\* the result.
jdnToGregorian(jd) ==
    LET bb    == jd + jdnCenturyCorrection(jd) + 1524
        cc    == floorDiv(20 * bb - 2442, 7305)
        dd    == floorDiv(1461 * cc, 4)
        ee    == floorDiv(10000 * (bb - dd), 306001)
        day   == (bb - dd) - floorDiv(306001 * ee, 10000)
        month == IF ee > 13 THEN ee - 13 ELSE ee - 1
        year  == (IF ee > 13 THEN cc + 1 ELSE cc) - 4716
    IN  <<year, month, day>>

\* lines 160-162: the month forced into 1..12
hijriMonthClamp_noUpperClamp(im) ==
    IF im = 0 THEN 1 ELSE im

hijriMonthClamp(im) ==
    IF im = 13 THEN 12
    ELSE IF im = 0 THEN 1
    ELSE im

\* line 159, before the clamp: Math.floor((z + 28.5001) / 29.5)
hijriRawMonth_noHalfDay(z) == floorDiv(10000 * z + 280001, 295000)

hijriRawMonth(z) == floorDiv(10000 * z + 285001, 295000)

\* lines 153-158: the day count reduced to the day within the Hijri year.
\* shift1 = 8.01/60 = 267/2000 and iyear = 10631/30, so
\*   Math.floor((z - shift1) / iyear) = floor((30000 z - 4005) / 10631000)
\*   Math.floor(j * iyear + shift1)   = floor((2126200 j + 801) / 6000)
hijriYearSplit_noShift(jd) ==
    LET z0  == jd - epochastro
        cyc == floorDiv(z0, 10631)
        z1  == z0 - 10631 * cyc
        j   == floorDiv(30 * z1, 10631)
        iy  == 30 * cyc + j
        z   == z1 - floorDiv(10631 * j, 30)
    IN  <<iy, z>>

hijriYearSplit(jd) ==
    LET z0  == jd - epochastro
        cyc == floorDiv(z0, 10631)
        z1  == z0 - 10631 * cyc
        j   == floorDiv(30000 * z1 - 4005, 10631000)
        iy  == 30 * cyc + j
        z   == z1 - floorDiv(2126200 * j + 801, 6000)
    IN  <<iy, z>>

gregorianToHijri(gy, gm, gd) ==
    LET jd == gregorianToJdn(gy, gm, gd) + CALIBRATION_OFFSET
        yz == hijriYearSplit(jd)
        iy == yz[1]
        z  == yz[2]
        im == hijriMonthClamp(hijriRawMonth(z))
        \* line 164: Math.floor(29.5 * im - 29) = floor((59 im - 58) / 2)
        id == z - floorDiv(59 * im - 58, 2)
    IN  <<iy, im, id>>

\* lines 158-159: the reduced day count z and the month computed from it,
\* before the two clamps of lines 160-162
hijriMonthBeforeClamp(gy, gm, gd) ==
    LET jd == gregorianToJdn(gy, gm, gd) + CALIBRATION_OFFSET
        z  == hijriYearSplit(jd)[2]
    IN  [z |-> z, im |-> hijriRawMonth(z)]

getLunarDate(jy, jm, jd) ==
    LET g == jalaliToGregorian(jy, jm, jd)
    IN  gregorianToHijri(g[1], g[2], g[3])

----------------------------------------------------------------------------
(* Calendar metadata tables.  The display names are Persian strings in the *)
(* source; they are transliterated here, equal names staying equal.        *)

SOLAR_HOLIDAYS ==
    ("1-1" :> "eyd-e nowruz") @@
    ("1-2" :> "eyd-e nowruz") @@
    ("1-3" :> "eyd-e nowruz") @@
    ("1-4" :> "eyd-e nowruz") @@
    ("1-12" :> "ruz-e jomhuri-ye eslami") @@
    ("1-13" :> "ruz-e tabiat") @@
    ("3-14" :> "rehlat-e emam khomeyni") @@
    ("3-15" :> "qiyam-e 15 khordad") @@
    ("11-22" :> "piruzi-ye enqelab-e eslami") @@
    ("12-29" :> "ruz-e melli shodan-e sanat-e naft")

LUNAR_HOLIDAYS ==
    ("1-9" :> "tasua-ye hoseyni") @@
    ("1-10" :> "ashura-ye hoseyni") @@
    ("2-20" :> "arbain-e hoseyni") @@
    ("2-28" :> "rehlat-e payambar va shahadat-e emam hasan") @@
    ("2-30" :> "shahadat-e emam reza") @@
    ("8-15" :> "nime-ye shaban") @@
    ("9-21" :> "shahadat-e hazrat-e ali") @@
    ("10-1" :> "eyd-e said-e fetr") @@
    ("10-25" :> "shahadat-e emam jafar-e sadeq") @@
    ("12-10" :> "eyd-e said-e qorban") @@
    ("12-18" :> "eyd-e said-e ghadir-e khom")

\* the label getHolidayName returns for a Friday that is no other holiday
FridayLabel == "jomeh"

\* the null getHolidayName returns
Null == "null"

\* the template literal `${m}-${d}`
holidayKey(m, d) == ToString(m) \o "-" \o ToString(d)

\* if (TABLE[key]): the entry exists and its string is not empty
truthyEntry(table, key) == key \in DOMAIN table /\ table[key] # ""

----------------------------------------------------------------------------
(* Holiday classifier *)

isHoliday_noLunarCheck(jy, jm, jd, w) ==
    IF w = 6 THEN TRUE
    ELSE IF truthyEntry(SOLAR_HOLIDAYS, holidayKey(jm, jd)) THEN TRUE
    ELSE FALSE

isHoliday(jy, jm, jd, w) ==
    IF w = 6 THEN TRUE
    ELSE IF truthyEntry(SOLAR_HOLIDAYS, holidayKey(jm, jd)) THEN TRUE
    ELSE LET l == getLunarDate(jy, jm, jd)
         IN  IF truthyEntry(LUNAR_HOLIDAYS, holidayKey(l[2], l[3])) THEN TRUE
             ELSE FALSE

getHolidayName_fridayFirst(jy, jm, jd, w) ==
    IF w = 6 THEN FridayLabel
    ELSE IF truthyEntry(SOLAR_HOLIDAYS, holidayKey(jm, jd))
    THEN SOLAR_HOLIDAYS[holidayKey(jm, jd)]
    ELSE LET l == getLunarDate(jy, jm, jd)
         IN  IF truthyEntry(LUNAR_HOLIDAYS, holidayKey(l[2], l[3]))
             THEN LUNAR_HOLIDAYS[holidayKey(l[2], l[3])]
             ELSE Null

getHolidayName_noFriday(jy, jm, jd, w) ==
    IF truthyEntry(SOLAR_HOLIDAYS, holidayKey(jm, jd))
    THEN SOLAR_HOLIDAYS[holidayKey(jm, jd)]
    ELSE LET l == getLunarDate(jy, jm, jd)
         IN  IF truthyEntry(LUNAR_HOLIDAYS, holidayKey(l[2], l[3]))
             THEN LUNAR_HOLIDAYS[holidayKey(l[2], l[3])]
             ELSE Null

getHolidayName(jy, jm, jd, w) ==
    IF truthyEntry(SOLAR_HOLIDAYS, holidayKey(jm, jd))
    THEN SOLAR_HOLIDAYS[holidayKey(jm, jd)]
    ELSE LET l == getLunarDate(jy, jm, jd)
         IN  IF truthyEntry(LUNAR_HOLIDAYS, holidayKey(l[2], l[3]))
             THEN LUNAR_HOLIDAYS[holidayKey(l[2], l[3])]
             ELSE IF w = 6 THEN FridayLabel
             ELSE Null

----------------------------------------------------------------------------
(* Weekday of a Jalali date *)

\* new Date(gy, gm - 1, gd).getDay(): the weekday of the local civil date,
\* 0 = Sunday, as ECMAScript computes it from the day number since 1970-01-01
\* (DayFromYear, the day within the year, WeekDay(t) = (Day(t) + 4) mod 7).
dayFromYear(y) ==
    365 * (y - 1970) + floorDiv(y - 1969, 4) - floorDiv(y - 1901, 100) + floorDiv(y - 1601, 400)

makeDay(gy, gm, gd) ==
    dayFromYear(gy) + g_d_m[gm] + (IF gm > 2 /\ isGregorianLeap(gy) THEN 1 ELSE 0) + gd - 1

getDay(gy, gm, gd) == (makeDay(gy, gm, gd) + 4) % 7

\* const map = [1, 2, 3, 4, 5, 6, 0], indexed from 1 here
map_noRemap == <<0, 1, 2, 3, 4, 5, 6>>

map == <<1, 2, 3, 4, 5, 6, 0>>

getDayOfWeekJalali(jy, jm, jd) ==
    LET g == jalaliToGregorian(jy, jm, jd)
    IN  map[getDay(g[1], g[2], g[3]) + 1]

----------------------------------------------------------------------------
(* Inputs *)

Jalali(y, m, d) == [cal |-> "J", date |-> <<y, m, d>>]

Gregorian(y, m, d) == [cal |-> "G", date |-> <<y, m, d>>]

NoCalls == <<>>

ValidJalali(lo, hi) ==
    {<<jy, jm, jd>> \in (lo..hi) \X (1..12) \X (1..31) : jd <= getJalaliDaysInMonth(jy, jm)}

ValidGregorian(lo, hi) ==
    {<<gy, gm, gd>> \in (lo..hi) \X (1..12) \X (1..31) : gd <= sal_a(gy)[gm + 1]}

----------------------------------------------------------------------------
(* Actions *)

JalaliToGregorian ==
    /\ cur.cal = "J"
    /\ steps < MaxSteps
    /\ ret = NoCalls
    /\ cur' = [cal |-> "G", date |-> jalaliToGregorian(cur.date[1], cur.date[2], cur.date[3])]
    /\ steps' = steps + 1
    /\ UNCHANGED <<src, dayOfWeek, ret, serverVars, calendarVars, pickerVars>>

GregorianToJalali ==
    /\ cur.cal = "G"
    /\ steps < MaxSteps
    /\ ret = NoCalls
    /\ cur' = [cal |-> "J", date |-> gregorianToJalali(cur.date[1], cur.date[2], cur.date[3])]
    /\ steps' = steps + 1
    /\ UNCHANGED <<src, dayOfWeek, ret, serverVars, calendarVars, pickerVars>>

\* an engine function called on the current date; its result is recorded
Called(fn) == fn \in DOMAIN ret

Record(fn, result) == ret' = ret @@ (fn :> result)

CallIsHoliday ==
    /\ cur.cal = "J"
    /\ ~Called("isHoliday")
    /\ Record("isHoliday", isHoliday(cur.date[1], cur.date[2], cur.date[3], dayOfWeek))
    /\ UNCHANGED <<src, cur, steps, dayOfWeek, serverVars, calendarVars, pickerVars>>

CallGetHolidayName ==
    /\ cur.cal = "J"
    /\ ~Called("getHolidayName")
    /\ Record("getHolidayName", getHolidayName(cur.date[1], cur.date[2], cur.date[3], dayOfWeek))
    /\ UNCHANGED <<src, cur, steps, dayOfWeek, serverVars, calendarVars, pickerVars>>

CallGetDayOfWeekJalali ==
    /\ cur.cal = "J"
    /\ ~Called("getDayOfWeekJalali")
    /\ Record("getDayOfWeekJalali", getDayOfWeekJalali(cur.date[1], cur.date[2], cur.date[3]))
    /\ UNCHANGED <<src, cur, steps, dayOfWeek, serverVars, calendarVars, pickerVars>>

CallGregorianToHijri ==
    /\ cur.cal = "G"
    /\ ~Called("gregorianToHijri")
    /\ Record("gregorianToHijri", gregorianToHijri(cur.date[1], cur.date[2], cur.date[3]))
    /\ UNCHANGED <<src, cur, steps, dayOfWeek, serverVars, calendarVars, pickerVars>>

CallGetLunarDate ==
    /\ cur.cal = "J"
    /\ ~Called("getLunarDate")
    /\ Record("getLunarDate", getLunarDate(cur.date[1], cur.date[2], cur.date[3]))
    /\ UNCHANGED <<src, cur, steps, dayOfWeek, serverVars, calendarVars, pickerVars>>

CallGetJalaliDaysInMonth ==
    /\ cur.cal = "J"
    /\ ~Called("getJalaliDaysInMonth")
    /\ Record("getJalaliDaysInMonth", getJalaliDaysInMonth(cur.date[1], cur.date[2]))
    /\ UNCHANGED <<src, cur, steps, dayOfWeek, serverVars, calendarVars, pickerVars>>

\* lines 158-159 of gregorianToHijri on the current date
CallHijriMonthBeforeClamp ==
    /\ cur.cal = "G"
    /\ ~Called("hijriMonthBeforeClamp")
    /\ Record("hijriMonthBeforeClamp",
              hijriMonthBeforeClamp(cur.date[1], cur.date[2], cur.date[3]))
    /\ UNCHANGED <<src, cur, steps, dayOfWeek, serverVars, calendarVars, pickerVars>>

\* line 128 of gregorianToHijri: the Julian Day Number of the date
CallGregorianToJdn ==
    /\ cur.cal = "G"
    /\ ~Called("gregorianToJdn")
    /\ Record("gregorianToJdn", gregorianToJdn(cur.date[1], cur.date[2], cur.date[3]))
    /\ UNCHANGED <<src, cur, steps, dayOfWeek, serverVars, calendarVars, pickerVars>>

\* lines 133-148 of gregorianToHijri applied to that number
CallJdnToGregorian ==
    /\ Called("gregorianToJdn")
    /\ ~Called("jdnToGregorian")
    /\ Record("jdnToGregorian", jdnToGregorian(ret["gregorianToJdn"]))
    /\ UNCHANGED <<src, cur, steps, dayOfWeek, serverVars, calendarVars, pickerVars>>

----------------------------------------------------------------------------
(* Backend: the rate limiter of the login endpoint *)

LOGIN_WINDOW_MS == 15 * 60 * 1000

LOGIN_MAX_ATTEMPTS == 30

\* req.ip || req.socket.remoteAddress || 'unknown'
Keys == {"10.0.0.1", "unknown"}

\* loginAttempts.get(key) || { count: 0, resetAt: now + LOGIN_WINDOW_MS }
currentAttempts(key) ==
    IF key \in DOMAIN loginAttempts
    THEN loginAttempts[key]
    ELSE [count |-> 0, resetAt |-> now + LOGIN_WINDOW_MS]

\* lines 53-56: a window that is over starts again
windowOver(current) == now > current.resetAt

resetIfOver_keepsCount(current) ==
    IF windowOver(current)
    THEN [count |-> current.count, resetAt |-> now + LOGIN_WINDOW_MS]
    ELSE current

resetIfOver(current) ==
    IF windowOver(current)
    THEN [count |-> 0, resetAt |-> now + LOGIN_WINDOW_MS]
    ELSE current

\* line 61: the request is answered with 429
tooMany_offByOne(count) == count > LOGIN_MAX_ATTEMPTS + 1

tooMany(count) == count > LOGIN_MAX_ATTEMPTS

\* the key has no entry yet, or its window is over: this request starts a window
startsWindow(key) == key \notin DOMAIN loginAttempts \/ windowOver(loginAttempts[key])

\* authLimiter for one request of a key: count it, then answer 429 or call next()
AuthLimiter(key) ==
    LET current == resetIfOver(currentAttempts(key))
        counted == [current EXCEPT !.count = @ + 1]
        before  == IF startsWindow(key)
                   THEN [passed |-> 0, rejected |-> 0, earlier |-> served[key].rejected]
                   ELSE served[key]
    IN  /\ counted.count <= LOGIN_MAX_ATTEMPTS + MaxExtra
        /\ loginAttempts' = [k \in DOMAIN loginAttempts \cup {key} |->
                                IF k = key THEN counted ELSE loginAttempts[k]]
        /\ served' = [served EXCEPT ![key] =
                        IF tooMany(counted.count)
                        THEN [before EXCEPT !.rejected = @ + 1]
                        ELSE [before EXCEPT !.passed = @ + 1]]
        /\ UNCHANGED <<now, loginVars, engineVars, calendarVars, pickerVars>>

LoginRequest == \E key \in Keys : AuthLimiter(key)

\* time passes: one millisecond past a whole number of windows, or a whole window
Tick ==
    /\ \/ /\ now % LOGIN_WINDOW_MS = 0
          /\ now' = now + 1
       \/ /\ now \div LOGIN_WINDOW_MS < MaxWindows
          /\ now' = now + LOGIN_WINDOW_MS
    /\ UNCHANGED <<loginAttempts, served, loginVars, engineVars, calendarVars, pickerVars>>

----------------------------------------------------------------------------
(* Backend: password hashing *)

\* A string is the sequence of its parts between colons: "scrypt:ab:cd" is
\* <<"scrypt", "ab", "cd">>, a string without a colon is <<itself>>.

\* crypto.randomBytes(16).toString('hex')
Salts == {"5a17", "c0de"}

\* crypto.scrypt(password, salt, 64) as hex: one key per password and salt
scrypt(plainTextPassword, salt) == "dk(" \o plainTextPassword \o "," \o salt \o ")"

\* `scrypt:${salt}:${derivedKey}`
hashPassword(plainTextPassword, salt) ==
    <<"scrypt", salt, scrypt(plainTextPassword, salt)>>

\* storedHash.startsWith('scrypt:')
startsWithScrypt(storedHash) == Len(storedHash) >= 2 /\ storedHash[1] = "scrypt"

\* the parts of the string joined by colons again
RECURSIVE joinColon(_)
joinColon(parts) ==
    IF Len(parts) = 0 THEN ""
    ELSE IF Len(parts) = 1 THEN parts[1]
    ELSE parts[1] \o ":" \o joinColon(Tail(parts))

verifyPassword(plainTextPassword, storedHash) ==
    IF startsWithScrypt(storedHash)
    THEN LET salt == storedHash[2]
             key  == IF Len(storedHash) >= 3 THEN storedHash[3] ELSE ""
         IN  IF salt = "" \/ key = "" THEN FALSE
             ELSE key = scrypt(plainTextPassword, salt)
    ELSE joinColon(storedHash) = plainTextPassword

----------------------------------------------------------------------------
(* Backend: POST /api/auth/login *)

Usernames == {"admin", "ali", "sara", "nobody"}

\* what a client sends as password; "" is a missing password
Passwords == {"123", "abc", "p:w", ""}

\* the users table when the server starts: the seeded admin has a scrypt hash,
\* the rows of ali and sara are left from before hashing and hold the
\* password itself ("abc" and "p:w")
SeedUsers(salt) ==
    [u \in {"admin", "ali", "sara"} |->
        IF u = "admin" THEN hashPassword("123", salt)
        ELSE IF u = "ali" THEN <<"abc">>
        ELSE <<"p", "w">>]

Slots == 1..MaxRequests

IdleRequest == [pc |-> "idle"]

\* line 433: if (isPasswordValid && isLegacyPlain)
shouldUpgrade_ignoresValidity(isPasswordValid, isLegacyPlain) == isLegacyPlain

shouldUpgrade(isPasswordValid, isLegacyPlain) == isPasswordValid /\ isLegacyPlain

Respond(r, request, status) ==
    reqs' = [reqs EXCEPT ![r] = [request EXCEPT !.pc = "done", !.status = status]]

\* lines 412-431: validation, SELECT of the user's row, verifyPassword
LoginSelect(r, username, password) ==
    LET request == [pc |-> "verified", username |-> username, password |-> password,
                    hash |-> <<>>, isPasswordValid |-> FALSE, isLegacyPlain |-> FALSE,
                    updated |-> FALSE, inserted |-> FALSE, status |-> 0]
    IN  /\ reqs[r].pc = "idle"
        /\ IF username = "" \/ password = ""
           THEN Respond(r, request, 400)
           ELSE IF username \notin DOMAIN users
           THEN Respond(r, request, 401)
           ELSE reqs' = [reqs EXCEPT ![r] =
                    [request EXCEPT !.hash = users[username],
                                    !.isPasswordValid = verifyPassword(password, users[username]),
                                    !.isLegacyPlain = ~startsWithScrypt(users[username])]]
        /\ UNCHANGED <<users, sessions, limiterVars, engineVars, calendarVars, pickerVars>>

\* lines 433-436: the legacy value is replaced by a hash of the password
LoginUpgrade(r, salt, dbOk) ==
    LET request == reqs[r]
    IN  /\ request.pc = "verified"
        /\ shouldUpgrade(request.isPasswordValid, request.isLegacyPlain)
        /\ IF dbOk
           THEN /\ users' = [users EXCEPT ![request.username] = hashPassword(request.password, salt)]
                /\ reqs' = [reqs EXCEPT ![r] = [request EXCEPT !.pc = "upgraded", !.updated = TRUE]]
           ELSE /\ Respond(r, request, 500)
                /\ UNCHANGED users
        /\ UNCHANGED <<sessions, limiterVars, engineVars, calendarVars, pickerVars>>

\* lines 438-453: 401 for a wrong password, else the session is inserted
LoginFinish(r, dbOk) ==
    LET request == reqs[r]
    IN  /\ \/ request.pc = "upgraded"
           \/ /\ request.pc = "verified"
              /\ ~shouldUpgrade(request.isPasswordValid, request.isLegacyPlain)
        /\ IF ~request.isPasswordValid
           THEN /\ Respond(r, request, 401)
                /\ UNCHANGED sessions
           ELSE IF dbOk
           THEN /\ sessions' = sessions \cup
                        {[username |-> request.username, token |-> Cardinality(sessions) + 1]}
                /\ Respond(r, [request EXCEPT !.inserted = TRUE], 200)
           ELSE /\ Respond(r, request, 500)
                /\ UNCHANGED sessions
        /\ UNCHANGED <<users, limiterVars, engineVars, calendarVars, pickerVars>>

----------------------------------------------------------------------------
(* Calendar view: the month grid of JalaliCalendar *)

\* lines 225-228 and 427-437: the day cells of month (jy, jm).  Cell number
\* index + 1 shows day index + 1 with the weekday index, the holiday mark and
\* the lunar date computed for it.  The holiday name of line 433 is
\* getHolidayName of the same four arguments as isHoliday and is not kept.
dayOfWeekIndex_noOffset(startDayOffset, index) == index % 7

dayOfWeekIndex(startDayOffset, index) == (startDayOffset + index) % 7

dayCells(jy, jm) ==
    LET daysInMonth    == getJalaliDaysInMonth(jy, jm)
        startDayOffset == getDayOfWeekJalali(jy, jm, 1)
    IN  [day \in 1..daysInMonth |->
            LET w == dayOfWeekIndex(startDayOffset, day - 1)
            IN  [day            |-> day,
                 dayOfWeekIndex |-> w,
                 isOff          |-> isHoliday(jy, jm, day, w),
                 lunar          |-> getLunarDate(jy, jm, day)]]

\* the lunar keys of a grid's cells
lunarKeysOf(grid) == {holidayKey(grid[i].lunar[2], grid[i].lunar[3]) : i \in DOMAIN grid}

\* the Gregorian days of the first and the last cell of the grid shown
gridSpan ==
    <<jalaliToGregorian(currentJalali.jy, currentJalali.jm, cells[1].day),
      jalaliToGregorian(currentJalali.jy, currentJalali.jm, cells[Len(cells)].day)>>

\* setCurrentJalali and the render that follows it
setCurrentJalali(jy, jm, dir) ==
    /\ currentJalali' = [jy |-> jy, jm |-> jm]
    /\ cells' = dayCells(jy, jm)
    /\ lunarKeysShown' = lunarKeysShown \cup lunarKeysOf(cells')
    /\ lastNav' = [dir |-> dir, from |-> gridSpan]
    /\ clicks' = clicks + 1
    /\ UNCHANGED <<engineVars, serverVars, pickerVars>>

\* lines 231-237
handlePrevMonth ==
    /\ currentJalali # [jy |-> MinJy, jm |-> 1]
    /\ setCurrentJalali(IF currentJalali.jm = 1 THEN currentJalali.jy - 1 ELSE currentJalali.jy,
                        IF currentJalali.jm = 1 THEN 12 ELSE currentJalali.jm - 1,
                        "prev")

\* lines 239-245
handleNextMonth ==
    /\ currentJalali # [jy |-> MaxJy, jm |-> 12]
    /\ setCurrentJalali(IF currentJalali.jm = 12 THEN currentJalali.jy + 1 ELSE currentJalali.jy,
                        IF currentJalali.jm = 12 THEN 1 ELSE currentJalali.jm + 1,
                        "next")

\* the calendar opened on month (jy, jm)
CalendarShows(jy, jm) ==
    /\ currentJalali = [jy |-> jy, jm |-> jm]
    /\ cells = dayCells(jy, jm)
    /\ lunarKeysShown = lunarKeysOf(cells)
    /\ lastNav = [dir |-> "none", from |-> <<>>]
    /\ clicks = 0

\* the calendar not opened: no grid is shown
CalendarIdle ==
    /\ currentJalali = [jy |-> 1400, jm |-> 1]
    /\ cells = <<>>
    /\ lunarKeysShown = {}
    /\ lastNav = [dir |-> "none", from |-> <<>>]
    /\ clicks = 0

----------------------------------------------------------------------------
(* Date picker: JalaliDatePicker *)

\* line 57: const currentYear = 1404
currentYear == 1404

\* line 58: the years offered, currentYear - 5 + i for i in 0..19
years == {currentYear - 5 + i : i \in 0..19}

\* line 55: the days offered
days == 1..31

\* the day the picker may be opened on (new Date() of the default branch)
Todays == {<<2026, 1, 21>>}

\* the browser's time zone: UTC-12:00, where local noon is midnight of the next
\* UTC day, and Tehran's UTC+03:30
TimezoneOffsets == {0 - 720, 210}

\* the empty string as value: no date
EmptyValue == [date |-> <<>>, minutes |-> 0]

\* the civil date of a day number counted from 1 January 1970 (the inverse
\* of makeDay), as the Date getters and toISOString compute it
dateFromDay(t) == jdnToGregorian(t + 2440588)

\* lines 49-52: new Date(gy, gm - 1, gd), setHours(12, 0, 0, 0), toISOString():
\* local noon of the day as a UTC date and time of day
toISOString(gy, gm, gd) ==
    LET utc == makeDay(gy, gm, gd) * 1440 + 720 - timezoneOffset
    IN  [date |-> dateFromDay(floorDiv(utc, 1440)), minutes |-> utc % 1440]

\* lines 19-21: new Date(value) and its getFullYear, getMonth + 1, getDate
localDate(iso) ==
    LET utc == makeDay(iso.date[1], iso.date[2], iso.date[3]) * 1440 + iso.minutes
    IN  dateFromDay(floorDiv(utc + timezoneOffset, 1440))

\* lines 38-46: the day forced into the month
isLeap(newY) == (((newY + 38) * 31) % 128) <= 30

validD(newY, newM, newD) ==
    LET d1 == IF newM <= 6 /\ newD > 31 THEN 31 ELSE newD
        d2 == IF newM > 6 /\ newD > 30 THEN 30 ELSE d1
    IN  IF newM = 12 /\ newD > 29
        THEN (IF isLeap(newY) THEN 30 ELSE 29)
        ELSE d2

\* lines 36-53: the Gregorian date of the selection is emitted through onChange,
\* and the parent passes it back as value
handleChange(newY, newM, newD) ==
    LET g == jalaliToGregorian(newY, newM, validD(newY, newM, newD))
    IN  /\ ~effectPending
        /\ selects < MaxSelects
        /\ selects' = selects + 1
        /\ value' = toISOString(g[1], g[2], g[3])
        /\ effectPending' = TRUE
        /\ lastChange' = <<newY, newM, newD>>
        /\ UNCHANGED <<picker, timezoneOffset, engineVars, serverVars, calendarVars>>

\* the three selects of the picker
SelectDay == \E d \in days : handleChange(picker[1], picker[2], d)

SelectMonth == \E m \in 1..12 : handleChange(picker[1], m, picker[3])

SelectYear == \E y \in years : handleChange(y, picker[2], picker[3])

\* lines 17-34: the effect that follows a change of value
SyncEffect ==
    /\ effectPending
    /\ IF value # EmptyValue
       THEN LET date == localDate(value)
            IN  picker' = gregorianToJalali(date[1], date[2], date[3])
       ELSE \E today \in Todays : picker' = gregorianToJalali(today[1], today[2], today[3])
    /\ effectPending' = FALSE
    /\ UNCHANGED <<value, lastChange, selects, timezoneOffset, engineVars, serverVars, calendarVars>>

\* lines 12-14: the picker when it is mounted with an empty value
PickerMounted(tz) ==
    /\ picker = <<1404, 1, 1>>
    /\ value = EmptyValue
    /\ effectPending = TRUE
    /\ lastChange = <<>>
    /\ selects = 0
    /\ timezoneOffset = tz

PickerIdle == PickerMounted(210)

----------------------------------------------------------------------------
(* The backend and the engine at rest *)

LimiterInit ==
    /\ now = 0
    /\ loginAttempts = <<>>
    /\ served = [k \in Keys |-> [passed |-> 0, rejected |-> 0, earlier |-> 0]]

LoginInit ==
    /\ \E salt \in Salts : users = SeedUsers(salt)
    /\ sessions = {}
    /\ reqs = [r \in Slots |-> IdleRequest]

ServerIdle ==
    /\ LimiterInit
    /\ users = SeedUsers("5a17")
    /\ sessions = {}
    /\ reqs = [r \in Slots |-> IdleRequest]

EngineIdle ==
    /\ src = Jalali(1400, 1, 1)
    /\ cur = src
    /\ steps = 0
    /\ dayOfWeek = 0
    /\ ret = NoCalls

----------------------------------------------------------------------------
(* Specifications *)

InitJ ==
    /\ \E t \in ValidJalali(MinJy, MaxJy) : src = [cal |-> "J", date |-> t]
    /\ cur = src
    /\ steps = 0
    /\ dayOfWeek = 0
    /\ ret = NoCalls
    /\ ServerIdle
    /\ CalendarIdle
    /\ PickerIdle

InitG ==
    /\ \E t \in ValidGregorian(MinGy, MaxGy) : src = [cal |-> "G", date |-> t]
    /\ cur = src
    /\ steps = 0
    /\ dayOfWeek = 0
    /\ ret = NoCalls
    /\ ServerIdle
    /\ CalendarIdle
    /\ PickerIdle

NextConv == JalaliToGregorian \/ GregorianToJalali

SpecJ == InitJ /\ [][NextConv]_vars

SpecG == InitG /\ [][NextConv]_vars

\* the holiday classifier on Jalali dates with every weekday index
InitHoliday ==
    /\ \E t \in ValidJalali(HolMinJy, HolMaxJy) : src = [cal |-> "J", date |-> t]
    /\ cur = src
    /\ steps = 0
    /\ dayOfWeek \in 0..6
    /\ ret = NoCalls
    /\ ServerIdle
    /\ CalendarIdle
    /\ PickerIdle

NextHoliday == CallIsHoliday \/ CallGetHolidayName

SpecHoliday == InitHoliday /\ [][NextHoliday]_vars

\* the weekday of every Jalali date
NextWeekday == CallGetDayOfWeekJalali

SpecWeekday == InitJ /\ [][NextWeekday]_vars

\* the Hijri date of every Gregorian date
NextHijri == CallGregorianToHijri

SpecHijri == InitG /\ [][NextHijri]_vars

\* the Hijri date of every Gregorian date with the month before its clamp
NextClamp == CallGregorianToHijri \/ CallHijriMonthBeforeClamp

SpecClamp == InitG /\ [][NextClamp]_vars

\* the Hijri date of every Jalali date, directly and through the Gregorian pivot
NextLunar == CallGetLunarDate \/ JalaliToGregorian \/ CallGregorianToHijri

SpecLunar == InitJ /\ [][NextLunar]_vars

\* the Julian Day Number of every Gregorian date, and back
NextJdn == CallGregorianToJdn \/ CallJdnToGregorian

SpecJdn == InitG /\ [][NextJdn]_vars

\* the length of every Jalali month
InitMonth ==
    /\ \E jy \in MinJy..MaxJy, jm \in 1..12 : src = Jalali(jy, jm, 1)
    /\ cur = src
    /\ steps = 0
    /\ dayOfWeek = 0
    /\ ret = NoCalls
    /\ ServerIdle
    /\ CalendarIdle
    /\ PickerIdle

NextMonth == CallGetJalaliDaysInMonth

SpecMonth == InitMonth /\ [][NextMonth]_vars

\* the calendar stepped forward month by month through the whole range
InitSweep ==
    /\ EngineIdle
    /\ ServerIdle
    /\ PickerIdle
    /\ CalendarShows(MinJy, 1)

NextSweep == handleNextMonth

SpecSweep == InitSweep /\ [][NextSweep]_vars

\* the calendar opened on any month and stepped a few months either way
InitCalendar ==
    /\ EngineIdle
    /\ ServerIdle
    /\ PickerIdle
    /\ \E jy \in HolMinJy..HolMaxJy, jm \in 1..12 : CalendarShows(jy, jm)

NextCalendar ==
    \/ clicks < MaxClicks /\ handleNextMonth
    \/ clicks < MaxClicks /\ handlePrevMonth

SpecCalendar == InitCalendar /\ [][NextCalendar]_vars

\* the date picker under selections of day, month and year
InitPicker ==
    /\ EngineIdle
    /\ ServerIdle
    /\ CalendarIdle
    /\ \E tz \in TimezoneOffsets : PickerMounted(tz)

NextPicker == SelectDay \/ SelectMonth \/ SelectYear \/ SyncEffect

SpecPicker == InitPicker /\ [][NextPicker]_vars

\* the rate limiter under requests of every key and passing time
InitLimiter ==
    /\ EngineIdle
    /\ CalendarIdle
    /\ PickerIdle
    /\ LimiterInit
    /\ users = SeedUsers("5a17")
    /\ sessions = {}
    /\ reqs = [r \in Slots |-> IdleRequest]

NextLimiter == LoginRequest \/ Tick

SpecLimiter == InitLimiter /\ [][NextLimiter]_vars

\* the login handler under concurrent requests
InitLogin ==
    /\ EngineIdle
    /\ CalendarIdle
    /\ PickerIdle
    /\ LimiterInit
    /\ LoginInit

NextLogin ==
    \/ \E r \in Slots, username \in Usernames \cup {""}, password \in Passwords :
            LoginSelect(r, username, password)
    \/ \E r \in Slots, salt \in Salts, dbOk \in BOOLEAN : LoginUpgrade(r, salt, dbOk)
    \/ \E r \in Slots, dbOk \in BOOLEAN : LoginFinish(r, dbOk)

SpecLogin == InitLogin /\ [][NextLogin]_vars

----------------------------------------------------------------------------
(* Properties of the Jalali converter *)

\* C1: Jalali round trip.  Converting a valid Jalali date (valid by
\* getJalaliDaysInMonth, jy in MinJy..MaxJy) to Gregorian and back returns
\* exactly the date that was supplied.
JalaliRoundTrip ==
    (src.cal = "J" /\ steps = 2) => cur = src

\* C2: Gregorian round trip.  Converting a valid Gregorian date (gy in
\* MinGy..MaxGy) to Jalali and back returns exactly the date supplied.
GregorianRoundTrip ==
    (src.cal = "G" /\ steps = 2) => cur = src

\* 20 March 2025 is the day the converter names 30 Esfand 1403
GregorianRoundTripWitness ==
    /\ src = Gregorian(2025, 3, 20)
    /\ steps = 2
    /\ cur = src

\* C3: Known fixed points.  1 Farvardin 1400 is 21 March 2021 and
\* 21 March 2021 is 1 Farvardin 1400; 1 Farvardin 1404 is 20 or 21 March 2025
\* and that Gregorian date is 1 Farvardin 1404 again.
KnownFixedPoints ==
    /\ (src = Jalali(1400, 1, 1) /\ steps = 1) => cur = Gregorian(2021, 3, 21)
    /\ (src = Jalali(1400, 1, 1) /\ steps = 2) => cur = Jalali(1400, 1, 1)
    /\ (src = Jalali(1404, 1, 1) /\ steps = 1)
          => cur \in {Gregorian(2025, 3, 20), Gregorian(2025, 3, 21)}
    /\ (src = Jalali(1404, 1, 1) /\ steps = 2) => cur = Jalali(1404, 1, 1)

KnownFixedPointsWitness ==
    /\ src = Jalali(1404, 1, 1)
    /\ steps = 2
    /\ cur = Jalali(1404, 1, 1)

\* C4: JalaliDate invariant on converter output.  The Jalali date that
\* gregorianToJalali returns for a valid Gregorian date has a day between 1
\* and getJalaliDaysInMonth of its year and month.
ConverterOutputWithinMonth ==
    (src.cal = "G" /\ steps = 1)
        => /\ 1 <= cur.date[3]
           /\ cur.date[3] <= getJalaliDaysInMonth(cur.date[1], cur.date[2])

\* C5: The leap approximation agrees with the converter's Esfand boundaries.
\* The number of days the converter places between 1 Esfand jy and
\* 1 Farvardin jy + 1 equals getJalaliDaysInMonth(jy, 12).
EsfandLengthUniform ==
    (src.cal = "J" /\ steps = 1 /\ src.date[2] = 12 /\ src.date[3] = 1)
        => LET jy == src.date[1]
               n  == jalaliToGregorian(jy + 1, 1, 1)
               e  == cur.date
           IN  makeDay(n[1], n[2], n[3]) - makeDay(e[1], e[2], e[3])
                   = getJalaliDaysInMonth(jy, 12)

----------------------------------------------------------------------------
(* Properties of the holiday classifier *)

\* the (jm, jd) key of the current date is in the solar holiday table
SolarKeyListed ==
    holidayKey(cur.date[2], cur.date[3]) \in DOMAIN SOLAR_HOLIDAYS

\* the Hijri (month, day) key of the current date is in the lunar holiday table
LunarKeyListed ==
    LET l == getLunarDate(cur.date[1], cur.date[2], cur.date[3])
    IN  holidayKey(l[2], l[3]) \in DOMAIN LUNAR_HOLIDAYS

\* C6: isHoliday returns true if and only if the weekday is 6, or the solar
\* key is in the solar table, or the Hijri key is in the lunar table.
IsHolidayDisjunction ==
    Called("isHoliday")
        => (ret["isHoliday"] <=> (dayOfWeek = 6 \/ SolarKeyListed \/ LunarKeyListed))

\* a holiday by the lunar table alone
IsHolidayWitness ==
    /\ Called("isHoliday")
    /\ ret["isHoliday"]
    /\ dayOfWeek # 6
    /\ ~SolarKeyListed
    /\ LunarKeyListed

\* C7: getHolidayName precedence is solar, then lunar, then Friday, then null.
GetHolidayNamePrecedence ==
    Called("getHolidayName")
        => LET name == ret["getHolidayName"]
               l    == getLunarDate(cur.date[1], cur.date[2], cur.date[3])
           IN  /\ SolarKeyListed
                    => name = SOLAR_HOLIDAYS[holidayKey(cur.date[2], cur.date[3])]
               /\ (~SolarKeyListed /\ LunarKeyListed)
                    => name = LUNAR_HOLIDAYS[holidayKey(l[2], l[3])]
               /\ (~SolarKeyListed /\ ~LunarKeyListed /\ dayOfWeek = 6)
                    => name = FridayLabel
               /\ (~SolarKeyListed /\ ~LunarKeyListed /\ dayOfWeek # 6)
                    => name = Null

\* a Friday that is a solar and a lunar holiday at once is named by the solar table
GetHolidayNameWitness ==
    /\ Called("getHolidayName")
    /\ dayOfWeek = 6
    /\ SolarKeyListed
    /\ LunarKeyListed
    /\ ret["getHolidayName"] = SOLAR_HOLIDAYS[holidayKey(cur.date[2], cur.date[3])]
    /\ ret["getHolidayName"] # FridayLabel

\* C8: isHoliday and getHolidayName agree on the boolean outcome.
HolidayOutcomesAgree ==
    (Called("isHoliday") /\ Called("getHolidayName"))
        => (ret["isHoliday"] <=> ret["getHolidayName"] # Null)

\* a plain Friday: the first test of isHoliday, the last of getHolidayName
HolidayOutcomesAgreeWitness ==
    /\ Called("isHoliday")
    /\ Called("getHolidayName")
    /\ dayOfWeek = 6
    /\ ~SolarKeyListed
    /\ ~LunarKeyListed
    /\ ret["isHoliday"]
    /\ ret["getHolidayName"] = FridayLabel

----------------------------------------------------------------------------
(* Properties of the calendar utilities *)

\* C9: getDayOfWeekJalali returns [1,2,3,4,5,6,0][g] for the Gregorian
\* weekday g (0 = Sunday) of the converted date: a value in 0..6, 0 on
\* Saturdays and 6 exactly on Fridays; the Jalali date of Wednesday
\* 2024-03-20 yields 4.  The Gregorian weekday is taken from the Julian Day
\* Number of the converted date.
WeekdayRemap ==
    Called("getDayOfWeekJalali")
        => LET g == jalaliToGregorian(cur.date[1], cur.date[2], cur.date[3])
               w == (gregorianToJdn(g[1], g[2], g[3]) + 1) % 7
               r == ret["getDayOfWeekJalali"]
           IN  /\ r \in 0..6
               /\ r = <<1, 2, 3, 4, 5, 6, 0>>[w + 1]
               /\ r = 6 <=> w = 5
               /\ r = 0 <=> w = 6
               /\ cur.date = gregorianToJalali(2024, 3, 20)
                    => (g = <<2024, 3, 20>> /\ w = 3 /\ r = 4)

WeekdayRemapWitness ==
    /\ Called("getDayOfWeekJalali")
    /\ cur.date = gregorianToJalali(2024, 3, 20)
    /\ ret["getDayOfWeekJalali"] = 4

----------------------------------------------------------------------------
(* Properties of the Hijri converter *)

\* C10: gregorianToHijri returns a structurally valid Hijri date: month in
\* 1..12 and day in 1..30.
HijriStructurallyValid ==
    Called("gregorianToHijri")
        => /\ ret["gregorianToHijri"][2] \in 1..12
           /\ ret["gregorianToHijri"][3] \in 1..30

\* a date whose month is computed as 13 and clamped to 12
HijriStructurallyValidWitness ==
    /\ Called("gregorianToHijri")
    /\ LET jd == gregorianToJdn(cur.date[1], cur.date[2], cur.date[3]) + CALIBRATION_OFFSET
       IN  hijriRawMonth(hijriYearSplit(jd)[2]) = 13
    /\ ret["gregorianToHijri"][2] = 12
    /\ ret["gregorianToHijri"][3] = 30

----------------------------------------------------------------------------
(* Properties of the Hijri calibration and the Julian Day Number *)

\* C11: The calibration offset aligns the reference date: gregorianToHijri of
\* 21 January 2026 is 1 Shaban 1447, 1 Bahman 1404 is 21 January 2026, and
\* getLunarDate(1404, 11, 1) is 1 Shaban 1447.
CalibrationReference ==
    /\ (Called("gregorianToHijri") /\ cur.date = <<2026, 1, 21>>)
          => ret["gregorianToHijri"] = <<1447, 8, 1>>
    /\ (src = Jalali(1404, 11, 1) /\ steps = 1) => cur = Gregorian(2026, 1, 21)
    /\ (Called("getLunarDate") /\ cur = Jalali(1404, 11, 1))
          => ret["getLunarDate"] = <<1447, 8, 1>>

CalibrationReferenceWitness ==
    /\ Called("getLunarDate")
    /\ cur = Jalali(1404, 11, 1)
    /\ ret["getLunarDate"] = <<1447, 8, 1>>

----------------------------------------------------------------------------
(* Properties of the month lengths and of the converters' ranges *)

\* C13: getJalaliDaysInMonth returns 31 for months 1..6, 30 for months 7..11,
\* and for month 12 it returns 30 exactly when ((jy + 38) * 31) % 128 <= 30
\* and 29 otherwise.
DaysInMonthTable ==
    Called("getJalaliDaysInMonth")
        => LET jy == cur.date[1]
               jm == cur.date[2]
               n  == ret["getJalaliDaysInMonth"]
           IN  /\ jm \in 1..6 => n = 31
               /\ jm \in 7..11 => n = 30
               /\ jm = 12 => (n = 30 <=> ((jy + 38) * 31) % 128 <= 30)
               /\ jm = 12 => n \in {29, 30}

DaysInMonthTableWitness ==
    /\ Called("getJalaliDaysInMonth")
    /\ cur.date[2] = 12
    /\ ((cur.date[1] + 38) * 31) % 128 <= 30
    /\ ret["getJalaliDaysInMonth"] = 30

\* the Gregorian leap rule and month lengths, stated apart from the converter
LeapYear(gy) == gy % 4 = 0 /\ (gy % 100 # 0 \/ gy % 400 = 0)

MonthLength(gy, gm) ==
    IF gm = 2 THEN (IF LeapYear(gy) THEN 29 ELSE 28)
    ELSE IF gm \in {4, 6, 9, 11} THEN 30
    ELSE 31

\* the day after a Gregorian date
NextGregorianDay(g) ==
    IF g[3] < MonthLength(g[1], g[2]) THEN <<g[1], g[2], g[3] + 1>>
    ELSE IF g[2] < 12 THEN <<g[1], g[2] + 1, 1>>
    ELSE <<g[1] + 1, 1, 1>>

\* C14: jalaliToGregorian returns a valid Gregorian date: the month is in
\* 1..12 (the month loop never ends at 13) and the day is between 1 and the
\* length of that month, February having 29 days exactly in leap years.
JalaliToGregorianValid ==
    (src.cal = "J" /\ steps = 1)
        => /\ cur.date[2] \in 1..12
           /\ 1 <= cur.date[3]
           /\ cur.date[3] <= MonthLength(cur.date[1], cur.date[2])

\* 10 Esfand 1402 is the leap day 29 February 2024
JalaliToGregorianValidWitness ==
    /\ src = Jalali(1402, 12, 10)
    /\ steps = 1
    /\ cur = Gregorian(2024, 2, 29)

\* C15: gregorianToJalali returns a structurally valid Jalali date: month in
\* 1..12, day in 1..31 for months 1..6 and in 1..30 for months 7..12.
GregorianToJalaliValid ==
    (src.cal = "G" /\ steps = 1)
        => /\ cur.date[2] \in 1..12
           /\ cur.date[2] <= 6 => cur.date[3] \in 1..31
           /\ cur.date[2] >= 7 => cur.date[3] \in 1..30

\* the last day of Shahrivar, the last 31-day month
GregorianToJalaliValidWitness ==
    /\ src.cal = "G"
    /\ steps = 1
    /\ cur.date[2] = 6
    /\ cur.date[3] = 31

----------------------------------------------------------------------------
(* Continuity over consecutive days *)

\* C19: gregorianToJalali is continuous: the day after a Gregorian day that
\* maps to (y, m, d) maps to (y, m, d + 1), or to (y, m + 1, 1) when d is the
\* last day of a month m < 12, or to (y + 1, 1, 1) when m = 12 and d is 29
\* or 30.
JalaliContinuity ==
    (src.cal = "G" /\ steps = 1)
        => LET y  == cur.date[1]
               m  == cur.date[2]
               d  == cur.date[3]
               n  == NextGregorianDay(src.date)
               jn == gregorianToJalali(n[1], n[2], n[3])
           IN  \/ jn = <<y, m, d + 1>>
               \/ /\ m < 12
                  /\ d = (IF m <= 6 THEN 31 ELSE 30)
                  /\ jn = <<y, m + 1, 1>>
               \/ /\ m = 12
                  /\ d \in {29, 30}
                  /\ jn = <<y + 1, 1, 1>>

\* the year turns after 30 Esfand 1403
JalaliContinuityWitness ==
    /\ src = Gregorian(2025, 3, 20)
    /\ steps = 1
    /\ cur = Jalali(1403, 12, 30)
    /\ gregorianToJalali(2025, 3, 21) = <<1404, 1, 1>>

\* C20: gregorianToHijri is continuous: the day after a Gregorian day that
\* maps to (y, m, d) maps to (y, m, d + 1), or, with d being 29 or 30, to day
\* 1 of the following month (month 1 of year y + 1 after month 12).
HijriContinuity ==
    Called("gregorianToHijri")
        => LET h  == ret["gregorianToHijri"]
               n  == NextGregorianDay(cur.date)
               hn == gregorianToHijri(n[1], n[2], n[3])
           IN  \/ hn = <<h[1], h[2], h[3] + 1>>
               \/ /\ h[3] \in {29, 30}
                  /\ hn = (IF h[2] < 12 THEN <<h[1], h[2] + 1, 1>> ELSE <<h[1] + 1, 1, 1>>)

\* the Hijri year turns after a 30 Dhu al-Hijjah
HijriContinuityWitness ==
    /\ Called("gregorianToHijri")
    /\ ret["gregorianToHijri"][2] = 12
    /\ ret["gregorianToHijri"][3] = 30
    /\ LET n == NextGregorianDay(cur.date)
       IN  gregorianToHijri(n[1], n[2], n[3]) = <<ret["gregorianToHijri"][1] + 1, 1, 1>>

\* C17: within one window of a key at most LOGIN_MAX_ATTEMPTS (30) of its
\* requests reach the login handler, and every further request of the key in
\* that window is answered with 429 without the handler being run: of the
\* count requests of the window, the first 30 passed and the rest were rejected.
LoginRateLimited ==
    \A key \in DOMAIN loginAttempts :
        /\ served[key].passed <= LOGIN_MAX_ATTEMPTS
        /\ served[key].passed + served[key].rejected = loginAttempts[key].count
        /\ served[key].rejected > 0 => served[key].passed = LOGIN_MAX_ATTEMPTS

\* a key has used up a window that began after the first 15 minutes, and a
\* request of it was rejected
LoginRateLimitedWitness ==
    \E key \in DOMAIN loginAttempts :
        /\ loginAttempts[key].resetAt > LOGIN_WINDOW_MS + 1
        /\ served[key].passed = LOGIN_MAX_ATTEMPTS
        /\ served[key].rejected > 0

\* C18: a login answered with 200 against a stored value that did not start
\* with "scrypt:" leaves a password_hash that starts with "scrypt:" and verifies
\* against the password sent; the handler writes the password_hash only for a
\* valid password on a legacy value; a login answered with 401 has written no
\* password_hash and inserted no session.
LegacyUpgradeOnLogin ==
    \A r \in Slots :
        LET request == reqs[r]
        IN  request.pc # "idle" =>
                /\ request.updated => request.isPasswordValid /\ request.isLegacyPlain
                /\ request.pc = "done" /\ request.status = 200 /\ request.isLegacyPlain =>
                        /\ request.updated
                        /\ startsWithScrypt(users[request.username])
                        /\ verifyPassword(request.password, users[request.username])
                /\ request.pc = "done" /\ request.status = 401 =>
                        /\ ~request.updated
                        /\ ~request.inserted

\* one login succeeded against a legacy value and one with a wrong password
\* against a legacy value was answered with 401
LegacyUpgradeOnLoginWitness ==
    /\ \E r \in Slots :
            /\ reqs[r].pc = "done"
            /\ reqs[r].status = 200
            /\ reqs[r].isLegacyPlain
            /\ reqs[r].inserted
    /\ \E r \in Slots :
            /\ reqs[r].pc = "done"
            /\ reqs[r].status = 401
            /\ reqs[r].isLegacyPlain

\* C21: the 13 -> 12 clamp of gregorianToHijri fires only on the last day of
\* a Hijri year (the next Gregorian day is 1 Muharram of the next year) and
\* the date returned is then (iy, 12, 30); the 0 -> 1 clamp never fires, the
\* reduced day count z being at least 1, and the day returned is at least 1.
HijriClampCharacterised ==
    Called("gregorianToHijri") /\ Called("hijriMonthBeforeClamp") =>
        LET h      == ret["gregorianToHijri"]
            before == ret["hijriMonthBeforeClamp"]
            next   == NextGregorianDay(cur.date)
        IN  /\ before.z >= 1
            /\ before.im # 0
            /\ h[3] >= 1
            /\ before.im = 13 =>
                    /\ h = <<h[1], 12, 30>>
                    /\ gregorianToHijri(next[1], next[2], next[3]) = <<h[1] + 1, 1, 1>>

\* a date on which the 13 -> 12 clamp fired
HijriClampCharacterisedWitness ==
    /\ Called("gregorianToHijri")
    /\ Called("hijriMonthBeforeClamp")
    /\ ret["hijriMonthBeforeClamp"].im = 13
    /\ ret["gregorianToHijri"][2] = 12

\* C22: every entry of the lunar holiday table is attainable: once the
\* calendar has shown every month of MinJy..MaxJy (1300..1500), each key "m-d"
\* of LUNAR_HOLIDAYS has been the lunar month and day of some cell.
LunarEntriesAttainable ==
    currentJalali = [jy |-> MaxJy, jm |-> 12] /\ clicks = 12 * (MaxJy - MinJy + 1) - 1 =>
        \A key \in DOMAIN LUNAR_HOLIDAYS : key \in lunarKeysShown

\* C23: calendar coverage.  The cells of the month shown, mapped through
\* jalaliToGregorian, are consecutive Gregorian days, and after handleNextMonth
\* the first cell is the day after the last cell of the month left: no
\* Gregorian day is missing from the grids and none is shown twice.
CalendarCoverage ==
    LET g(i) == jalaliToGregorian(currentJalali.jy, currentJalali.jm, cells[i].day)
    IN  /\ \A i \in 1..(Len(cells) - 1) : g(i + 1) = NextGregorianDay(g(i))
        /\ lastNav.dir = "next" => g(1) = NextGregorianDay(lastNav.from[2])

\* C24: calendar grid weekday.  The weekday index the grid passes to
\* isHoliday and getHolidayName for a cell, (startDayOffset + day - 1) % 7,
\* is getDayOfWeekJalali of the cell's date, so a cell is treated as a Friday
\* (index 6, marked as off) exactly when its date is a Friday.
GridWeekday ==
    \A i \in DOMAIN cells :
        LET w == getDayOfWeekJalali(currentJalali.jy, currentJalali.jm, cells[i].day)
        IN  /\ cells[i].dayOfWeekIndex = w
            /\ w = 6 => cells[i].isOff

\* a month that does not begin on a Saturday is shown after a month change,
\* with a Friday cell later than its first week
GridWeekdayWitness ==
    /\ clicks > 0
    /\ cells[1].dayOfWeekIndex # 0
    /\ \E i \in DOMAIN cells :
            /\ cells[i].day > 7
            /\ cells[i].dayOfWeekIndex = 6
            /\ cells[i].isOff

\* C25: date picker selection is stable.  Once the sync effect has run for
\* the value emitted by handleChange(y, m, d), the picker state is (y, m, v),
\* v being d clamped to 31 in months 1..6, to 30 in months 7..12 and, for
\* month 12 with d > 29, to the leap-approximation length of Esfand.
PickerSelectionStable ==
    ~effectPending /\ lastChange # <<>> =>
        LET y == lastChange[1]
            m == lastChange[2]
            d == lastChange[3]
            v == IF m = 12 /\ d > 29 THEN getJalaliDaysInMonth(y, 12)
                 ELSE IF m <= 6 THEN (IF d > 31 THEN 31 ELSE d)
                 ELSE (IF d > 30 THEN 30 ELSE d)
        IN  picker = <<y, m, v>>

\* C26: the login lockout ends with the window.  A request of a key that
\* arrives while its window lasts, rejected or not, adds one to the count and
\* leaves resetAt as it is; the first request arriving after resetAt sets the
\* count to 1, starts a window of LOGIN_WINDOW_MS from now and is passed to
\* the login handler, however many requests were rejected before.
LockoutEndsWithWindow ==
    [][\A key \in DOMAIN loginAttempts :
            loginAttempts'[key] # loginAttempts[key] =>
                IF now > loginAttempts[key].resetAt
                THEN /\ loginAttempts'[key] = [count |-> 1, resetAt |-> now + LOGIN_WINDOW_MS]
                     /\ served'[key].passed = 1
                     /\ served'[key].rejected = 0
                ELSE /\ loginAttempts'[key].resetAt = loginAttempts[key].resetAt
                     /\ loginAttempts'[key].count = loginAttempts[key].count + 1]_vars

\* the first request of a key after a window in which requests of it were
\* rejected has been passed to the handler
LockoutEndsWithWindowWitness ==
    \E key \in DOMAIN loginAttempts :
        /\ served[key].earlier > 1
        /\ loginAttempts[key].count = 1
        /\ served[key].passed = 1

=============================================================================
